---- MODULE Spec2Model ----
(***************************************************************************)
(* A model of src/main.py: the JSON flattening cloud function.             *)
(*                                                                         *)
(* Python strings are sequences of one-character strings, Python dicts are *)
(* sequences of <<key, value>> pairs with distinct keys (insertion order   *)
(* kept), JSON values and table cells are records [t |-> tag, v |-> ...].  *)
(*                                                                         *)
(* The pure components are exercised by their own specifications           *)
(* (SpecSanitize, SpecTableName, SpecFlatten, SpecReconcile, SpecEnforce), *)
(* which call the component on an argument `arg` and keep its return value *)
(* in `ret`; Spec is one invocation of process_json_file.                  *)
(***************************************************************************)
EXTENDS Integers, Sequences, FiniteSets, TLC

VARIABLES
    pc,              \* position of the running call
    arg,             \* component specifications: the argument of the call
    ret,             \* component specifications: the value returned
    ret2,            \* SpecSanitize: the value returned by the second call
    file_name,       \* process_json_file: event['name']
    json_data,       \* process_json_file: the parsed document
    flattened_data,  \* process_json_file: the list of flat records
    df,              \* process_json_file: the DataFrame
    table_name,      \* process_json_file: the derived table short name
    table,           \* schema_enforcement: what get_table answered
    attempts,        \* number of df.to_gbq calls made
    appended,        \* the batches the external store accepted
    steps,           \* the pipeline stages completed so far, in order
    failed_at,       \* the stage that raised, "none" if none did
    outcome          \* how the invocation ended

vars == <<pc, arg, ret, ret2, file_name, json_data, flattened_data, df,
          table_name, table, attempts, appended, steps, failed_at, outcome>>

pipeVars == <<file_name, json_data, flattened_data, df, table_name, table,
              attempts, appended, steps, failed_at, outcome>>

None == [t |-> "null", v |-> 0]

\* The pipeline variables of a specification that runs no pipeline.
PipeIdle ==
    /\ file_name = <<>>
    /\ json_data = None
    /\ flattened_data = <<>>
    /\ df = None
    /\ table_name = <<>>
    /\ table = None
    /\ attempts = 0
    /\ appended = <<>>
    /\ steps = <<>>
    /\ failed_at = "none"
    /\ outcome = "none"

\* The component variables of the pipeline specification.
UnitIdle ==
    /\ arg = None
    /\ ret = None
    /\ ret2 = None

(***************************************************************************)
(* Strings                                                                 *)
(***************************************************************************)
Lower == <<"a","b","c","d","e","f","g","h","i","j","k","l","m",
           "n","o","p","q","r","s","t","u","v","w","x","y","z">>

Upper == <<"A","B","C","D","E","F","G","H","I","J","K","L","M",
           "N","O","P","Q","R","S","T","U","V","W","X","Y","Z">>

Digits == <<"0","1","2","3","4","5","6","7","8","9">>

Range(s) == {s[i] : i \in DOMAIN s}

\* The character class [a-zA-Z0-9_] of line 32.
IsWordChar(c) == c \in Range(Lower) \cup Range(Upper) \cup Range(Digits) \cup {"_"}

\* str.replace(old, new) for a one-character old.
RECURSIVE str_replace(_, _, _)
str_replace(s, old, new) ==
    IF s = <<>> THEN <<>>
    ELSE (IF Head(s) = old THEN new ELSE <<Head(s)>>)
             \o str_replace(Tail(s), old, new)

\* re.sub(r'[^a-zA-Z0-9_]', '_', s)
re_sub_nonword(s) == [i \in DOMAIN s |-> IF IsWordChar(s[i]) THEN s[i] ELSE "_"]

\* A plausible slip: str.replace('__', '_'), one left-to-right pass over
\* non-overlapping pairs, in place of the regular expression _+.
RECURSIVE replace_pairs_once(_)
replace_pairs_once(s) ==
    IF Len(s) <= 1 THEN s
    ELSE IF s[1] = "_" /\ s[2] = "_"
         THEN <<"_">> \o replace_pairs_once(Tail(Tail(s)))
         ELSE <<s[1]>> \o replace_pairs_once(Tail(s))

\* re.sub(r'_+', '_', s): every maximal run of '_' becomes one '_'.
RECURSIVE re_sub_underscores(_)
re_sub_underscores(s) ==
    IF Len(s) <= 1 THEN s
    ELSE IF s[1] = "_" /\ s[2] = "_"
         THEN re_sub_underscores(Tail(s))
         ELSE <<s[1]>> \o re_sub_underscores(Tail(s))

RECURSIVE str_lstrip(_, _)
str_lstrip(s, c) ==
    IF s # <<>> /\ Head(s) = c THEN str_lstrip(Tail(s), c) ELSE s

RECURSIVE str_rstrip(_, _)
str_rstrip(s, c) ==
    IF s # <<>> /\ s[Len(s)] = c
    THEN str_rstrip(SubSeq(s, 1, Len(s) - 1), c)
    ELSE s

\* A plausible slip: only the leading '_' are removed.
strip_left_only(s, c) == str_lstrip(s, c)

\* str.strip(c)
str_strip(s, c) == str_rstrip(str_lstrip(s, c), c)

percent == <<"p","e","r","c","e","n","t">>

_per_ == <<"_","p","e","r","_">>

sanitize_column_name(name) ==
    LET n1 == str_replace(name, "%", percent)
        n2 == str_replace(n1, "/", _per_)
        n3 == re_sub_nonword(n2)
        n4 == re_sub_underscores(n3)
    IN  str_strip(n4, "_")

(***************************************************************************)
(* SpecSanitize: sanitize_column_name on every string over NameChars of    *)
(* length at most MaxNameLen, then on its own result.                      *)
(***************************************************************************)
MaxNameLen == 3

NameChars == {"a", "Z", "7", "_", "%", "/", " ", "-"}

RECURSIVE StringsUpTo(_, _)
StringsUpTo(chars, n) ==
    IF n = 0 THEN {<<>>}
    ELSE LET shorter == StringsUpTo(chars, n - 1)
         IN  shorter \cup {Append(s, c) : s \in {x \in shorter : Len(x) = n - 1},
                                          c \in chars}

InitSanitize ==
    /\ pc = "call"
    /\ arg \in StringsUpTo(NameChars, MaxNameLen)
    /\ ret = None
    /\ ret2 = None
    /\ PipeIdle

Sanitize ==
    /\ pc = "call"
    /\ ret' = sanitize_column_name(arg)
    /\ pc' = "once"
    /\ UNCHANGED <<arg, ret2>>
    /\ UNCHANGED pipeVars

SanitizeAgain ==
    /\ pc = "once"
    /\ ret2' = sanitize_column_name(ret)
    /\ pc' = "twice"
    /\ UNCHANGED <<arg, ret>>
    /\ UNCHANGED pipeVars

NextSanitize == Sanitize \/ SanitizeAgain

SpecSanitize == InitSanitize /\ [][NextSanitize]_vars

IsSafeName(s) ==
    /\ \A i \in DOMAIN s : IsWordChar(s[i])
    /\ s # <<>> => (s[1] # "_" /\ s[Len(s)] # "_")
    /\ \A i \in 1 .. (Len(s) - 1) : ~(s[i] = "_" /\ s[i + 1] = "_")

\* C1: for every input string, the sanitized name holds only ASCII letters,
\* digits and '_', neither starts nor ends with '_', and has no "__".
C1_SanitizedIsSafe == pc \in {"once", "twice"} => IsSafeName(ret)

\* An input with '%', '/' and a special character was sanitized to a
\* non-empty name.
C1_Witness ==
    /\ pc = "once"
    /\ arg = <<"%", "/", " ">>
    /\ ret = percent \o <<"_","p","e","r">>

\* C2: sanitizing a sanitized name returns it unchanged.
C2_Idempotent == pc = "twice" => ret2 = ret

\* The second call ran on a result that differs from the original input.
C2_Witness ==
    /\ pc = "twice"
    /\ arg = <<"/", " ", "/">>
    /\ ret # arg
    /\ ret2 = <<"p","e","r","_","p","e","r">>

(***************************************************************************)
(* Table-name derivation, lines 196-198                                    *)
(***************************************************************************)
\* str.split(c): the segments between the occurrences of c, at least one.
str_split(s, c) ==
    LET cuts == {i \in DOMAIN s : s[i] = c}
        n == Cardinality(cuts)
        cut(k) == CHOOSE i \in cuts : Cardinality({j \in cuts : j < i}) = k - 1
    IN  [k \in 1 .. (n + 1) |->
            SubSeq(s, IF k = 1 THEN 1 ELSE cut(k - 1) + 1,
                      IF k = n + 1 THEN Len(s) ELSE cut(k) - 1)]

\* sep.join(parts)
RECURSIVE str_join(_, _)
str_join(parts, sep) ==
    IF parts = <<>> THEN <<>>
    ELSE IF Len(parts) = 1 THEN parts[1]
    ELSE parts[1] \o sep \o str_join(Tail(parts), sep)

\* os.path.basename(p): what follows the last '/'.
basename(p) == LET parts == str_split(p, "/") IN parts[Len(parts)]

\* A plausible slip: parts[:-1], one segment dropped.
DropLastOne(parts) ==
    IF Len(parts) <= 1 THEN <<>> ELSE SubSeq(parts, 1, Len(parts) - 1)

\* parts[:-2]
DropLastTwo(parts) ==
    IF Len(parts) <= 2 THEN <<>> ELSE SubSeq(parts, 1, Len(parts) - 2)

\* Line 197: source_file_name.split('.')[0]
base_name_of(source_file_name) == str_split(source_file_name, ".")[1]

\* Lines 196-198.
table_name_of(name) ==
    LET source_file_name == basename(name)
        base_name == base_name_of(source_file_name)
    IN  str_join(DropLastTwo(str_split(base_name, "_")), <<"_">>)

\* What "the base file name with its extension stripped" denotes: the
\* extension is the suffix that starts at the last '.' of the name.
StripExtension(s) ==
    LET dots == {i \in DOMAIN s : s[i] = "."}
    IN  IF dots = {} THEN s
        ELSE SubSeq(s, 1, (CHOOSE i \in dots : \A j \in dots : j <= i) - 1)

MaxFileLen == 5

FileChars == {"a", "_", ".", "/"}

ExampleFile ==
    <<"s","a","l","e","s","_","r","e","p","o","r","t","_","2","0","2","4","_",
      "0","1","_","1","5","_","1","0","3","0","0","0",".","j","s","o","n">>

ExampleTable ==
    <<"s","a","l","e","s","_","r","e","p","o","r","t","_","2","0","2","4","_",
      "0","1","_","1","5">>

\* uploads/sales.v2_report_2024_01_15_103000.json
DottedFile ==
    <<"u","p","l","o","a","d","s","/","s","a","l","e","s",".","v","2","_",
      "r","e","p","o","r","t","_","2","0","2","4","_","0","1","_","1","5","_",
      "1","0","3","0","0","0",".","j","s","o","n">>

InitTableName ==
    /\ pc = "call"
    /\ \/ arg \in {ExampleFile, DottedFile}
       \/ arg \in StringsUpTo(FileChars, MaxFileLen)
    /\ ret = None
    /\ ret2 = None
    /\ PipeIdle

DeriveTableName ==
    /\ pc = "call"
    /\ ret' = table_name_of(arg)
    /\ pc' = "derived"
    /\ UNCHANGED <<arg, ret2>>
    /\ UNCHANGED pipeVars

NextTableName == DeriveTableName

SpecTableName == InitTableName /\ [][NextTableName]_vars

Positions(s, c) == {i \in DOMAIN s : s[i] = c}

Max(S) == CHOOSE i \in S : \A j \in S : j <= i

Min(S) == CHOOSE i \in S : \A j \in S : i <= j

\* What follows the last '/' of p.
AfterLastSlash(p) ==
    IF Positions(p, "/") = {} THEN p
    ELSE SubSeq(p, Max(Positions(p, "/")) + 1, Len(p))

\* What precedes the first '.' of s.
BeforeFirstDot(s) ==
    IF Positions(s, ".") = {} THEN s
    ELSE SubSeq(s, 1, Min(Positions(s, ".")) - 1)

\* s without its last two '_'-delimited segments: what precedes its
\* last-but-one '_', nothing when it has fewer than two '_'.
WithoutLastTwoSegments(s) ==
    LET us == Positions(s, "_")
    IN  IF Cardinality(us) < 2 THEN <<>>
        ELSE SubSeq(s, 1, Max(us \ {Max(us)}) - 1)

\* sales_report_2024_01
ExampleTableActual ==
    <<"s","a","l","e","s","_","r","e","p","o","r","t","_","2","0","2","4","_",
      "0","1">>

JNum(n) == [t |-> "num", v |-> n]

JStr(s) == [t |-> "str", v |-> s]

JArr(items) == [t |-> "arr", v |-> items]

\* An object: its <<key, value>> pairs in insertion order, keys distinct.
JObj(pairs) == [t |-> "obj", v |-> pairs]

\* isinstance(x, dict), isinstance(x, list)
IsDict(x) == x.t = "obj"

IsList(x) == x.t = "arr"

\* all(isinstance(item, dict) for item in value)
AllDicts(items) == \A i \in DOMAIN items : IsDict(items[i])

DictHas(d, k) == \E i \in DOMAIN d : d[i][1] = k

DictGet(d, k) == d[CHOOSE i \in DOMAIN d : d[i][1] = k][2]

DictKeys(d) == [i \in DOMAIN d |-> d[i][1]]

\* d[k] = v: an existing key keeps its place and takes the new value.
DictSet(d, k, v) ==
    IF DictHas(d, k)
    THEN [i \in DOMAIN d |-> IF d[i][1] = k THEN <<k, v>> ELSE d[i]]
    ELSE Append(d, <<k, v>>)

\* d.update(e)
RECURSIVE DictUpdate(_, _)
DictUpdate(d, e) ==
    IF e = <<>> THEN d
    ELSE DictUpdate(DictSet(d, e[1][1], e[1][2]), Tail(e))

\* str(n) for an integer n >= 0
RECURSIVE int_str(_)
int_str(n) ==
    IF n < 10 THEN <<Digits[n + 1]>>
    ELSE int_str(n \div 10) \o <<Digits[(n % 10) + 1]>>

\* repr(x): how str() of a list or a dict shows the values inside it.
RECURSIVE py_repr(_)
py_repr(x) ==
    CASE x.t = "null" -> <<"N","o","n","e">>
      [] x.t = "num"  -> int_str(x.v)
      [] x.t = "str"  -> <<"'">> \o x.v \o <<"'">>
      [] x.t = "arr"  ->
            <<"[">> \o str_join([i \in DOMAIN x.v |-> py_repr(x.v[i])], <<",", " ">>)
                    \o <<"]">>
      [] x.t = "obj"  ->
            <<"{">> \o str_join([i \in DOMAIN x.v |->
                                    py_repr(JStr(x.v[i][1])) \o <<":", " ">>
                                        \o py_repr(x.v[i][2])],
                                <<",", " ">>)
                    \o <<"}">>

\* str(x)
py_str(x) == IF x.t = "str" THEN x.v ELSE py_repr(x)

(***************************************************************************)
(* flatten_json, lines 38-67                                               *)
(***************************************************************************)
sep == <<"_">>

\* Line 59: ', '.join(map(str, value))
JoinList(items) == JStr(str_join([i \in DOMAIN items |-> py_str(items[i])], <<",", " ">>))

\* A plausible slip: the list is stored as it is.
KeepList(items) == JArr(items)

\* A plausible slip: enumerate(value, 1).
IndexFromOne(i) == int_str(i)

\* Line 56: enumerate counts from 0; i is the 1-based position.
IndexKey(i) == int_str(i - 1)

\* flatten_json(nested_json, parent_key) is the function of lines 38-67;
\* FlattenItems is its loop over the items left, flat_dict the dict built so
\* far; FlattenElems is the loop of lines 56-57 over the elements from
\* position i on.
RECURSIVE flatten_json(_, _), FlattenItems(_, _, _), FlattenElems(_, _, _, _)
FlattenElems(value, i, new_key, flat_dict) ==
    IF i > Len(value) THEN flat_dict
    ELSE FlattenElems(value, i + 1, new_key,
             DictUpdate(flat_dict,
                        flatten_json(value[i], new_key \o sep \o IndexKey(i))))

FlattenItems(items, parent_key, flat_dict) ==
    IF items = <<>> THEN flat_dict
    ELSE LET key == items[1][1]
             value == items[1][2]
             new_key == IF parent_key # <<>> THEN parent_key \o sep \o key ELSE key
         IN  FlattenItems(Tail(items), parent_key,
                 IF IsDict(value)
                 THEN DictUpdate(flat_dict, flatten_json(value, new_key))
                 ELSE IF IsList(value)
                 THEN IF AllDicts(value.v)
                      THEN FlattenElems(value.v, 1, new_key, flat_dict)
                      ELSE DictSet(flat_dict, new_key, JoinList(value.v))
                 ELSE DictSet(flat_dict, new_key, value))

\* A value that is no dict has no .items(): the AttributeError is caught at
\* line 65 and the empty flat_dict is returned.
flatten_json(nested_json, parent_key) ==
    IF IsDict(nested_json)
    THEN FlattenItems(nested_json.v, parent_key, <<>>)
    ELSE <<>>

(***************************************************************************)
(* JSON documents with a given number of nodes                             *)
(***************************************************************************)
Scalars == {JNum(1), None}

\* The sequences of n distinct keys.
KeySeqs(keys, n) ==
    {ks \in [1 .. n -> keys] : \A i, j \in 1 .. n : ks[i] = ks[j] => i = j}

\* A \cup B, with A counted first: TLC then holds A sorted and looks each
\* element of B up in it by bisection.
Cup(A, B) == IF Cardinality(A) = 0 THEN B ELSE A \cup B

\* The JSON values of exactly Len(levels) + 1 nodes (trees) and the sequences
\* of values of Len(levels) + 1 nodes in all (forests), object keys in keys,
\* given the same for every smaller number of nodes in levels.
NextLevel(keys, levels) ==
    LET n == Len(levels) + 1
        ForestsOf(m) == IF m = 0 THEN {<<>>} ELSE levels[m].forests
        ObjectsOf(len) ==
            {JObj([i \in 1 .. len |-> <<ks[i], f[i]>>]) :
                ks \in KeySeqs(keys, len),
                f \in {g \in ForestsOf(n - 1) : Len(g) = len}}
        Objects[len \in 0 .. Cardinality(keys)] ==
            IF len = 0 THEN ObjectsOf(0) ELSE Cup(Objects[len - 1], ObjectsOf(len))
        trees ==
            Cup(Cup(IF n = 1 THEN Scalars ELSE {}, {JArr(f) : f \in ForestsOf(n - 1)}),
                Objects[Cardinality(keys)])
        Longer[j \in 0 .. (n - 1)] ==
            IF j = 0 THEN {}
            ELSE Cup(Longer[j - 1],
                     {<<x>> \o f : x \in levels[j].trees, f \in levels[n - j].forests})
    IN  [trees |-> trees, forests |-> Cup({<<x>> : x \in trees}, Longer[n - 1])]

RECURSIVE TreeTable(_, _, _)
TreeTable(keys, levels, n) ==
    IF Len(levels) >= n THEN levels
    ELSE TreeTable(keys, Append(levels, NextLevel(keys, levels)), n)

TreesUpTo(keys, n) ==
    LET levels == TreeTable(keys, <<>>, n)
        UpTo[m \in 0 .. n] == IF m = 0 THEN {} ELSE Cup(UpTo[m - 1], levels[m].trees)
    IN  UpTo[n]

(***************************************************************************)
(* SpecFlatten: flatten_json on every JSON object of at most MaxNodes      *)
(* nodes.                                                                  *)
(***************************************************************************)
MaxNodes == 5

\* "a" and "a_a": {"a": {"a": ..}} and {"a_a": ..} give the same flat key.
FlattenKeys == {<<"a">>, <<"a","_","a">>}

InitFlatten ==
    /\ pc = "call"
    /\ arg \in {x \in TreesUpTo(FlattenKeys, MaxNodes) : IsDict(x)}
    /\ ret = None
    /\ ret2 = None
    /\ PipeIdle

Flatten ==
    /\ pc = "call"
    /\ ret' = flatten_json(arg, <<>>)
    /\ pc' = "flat"
    /\ UNCHANGED <<arg, ret2>>
    /\ UNCHANGED pipeVars

NextFlatten == Flatten

SpecFlatten == InitFlatten /\ [][NextFlatten]_vars

\* The <<key, value>> pairs an object contributes, in traversal order, each
\* as the claim describes it: a nested object its own pairs under
\* prefix+sep+key, an array of objects each element's pairs under
\* prefix+sep+key+sep+index, any other array one joined string, a scalar
\* itself.
RECURSIVE Contributions(_, _)
Contributions(obj, prefix) ==
    LET Under(key) == IF prefix = <<>> THEN key ELSE prefix \o <<"_">> \o key
        Of(pair) ==
            LET k == Under(pair[1])
                x == pair[2]
            IN  CASE x.t = "obj" -> Contributions(x, k)
                  [] x.t = "arr" /\ (\A i \in DOMAIN x.v : x.v[i].t = "obj") ->
                        LET Elem(i) == Contributions(x.v[i], k \o <<"_">> \o int_str(i - 1))
                            Cat[i \in 0 .. Len(x.v)] ==
                                IF i = 0 THEN <<>> ELSE Cat[i - 1] \o Elem(i)
                        IN  Cat[Len(x.v)]
                  [] x.t = "arr" /\ ~(\A i \in DOMAIN x.v : x.v[i].t = "obj") ->
                        << <<k, [t |-> "str",
                                 v |-> str_join([i \in DOMAIN x.v |-> py_str(x.v[i])],
                                                <<",", " ">>)]>> >>
                  [] OTHER -> << <<k, x>> >>
        All[i \in 0 .. Len(obj.v)] ==
            IF i = 0 THEN <<>> ELSE All[i - 1] \o Of(obj.v[i])
    IN  All[Len(obj.v)]

\* record is one single-level record made of contributions cs: it has every
\* contributed key once, in order of first contribution, each with the value
\* contributed to it last, and no value that is an object or an array.
IsRecordOf(record, cs) ==
    /\ \A i, j \in DOMAIN record : record[i][1] = record[j][1] => i = j
    /\ \A i \in DOMAIN record : record[i][2].t \notin {"obj", "arr"}
    /\ {record[i][1] : i \in DOMAIN record} = {cs[i][1] : i \in DOMAIN cs}
    /\ \A i \in DOMAIN record :
          record[i][2] = cs[Max({j \in DOMAIN cs : cs[j][1] = record[i][1]})][2]
    /\ \A i, j \in DOMAIN record :
          i < j => Min({n \in DOMAIN cs : cs[n][1] = record[i][1]})
                     < Min({n \in DOMAIN cs : cs[n][1] = record[j][1]})

C5_WitnessJoin ==
    /\ pc = "flat"
    /\ arg = JObj(<< <<<<"a">>, JArr(<<JNum(1), None>>)>> >>)
    /\ ret = << << <<"a">>, JStr(<<"1",","," ","N","o","n","e">>)>> >>

(***************************************************************************)
(* DataFrames: the column labels in order, and the rows, each a sequence   *)
(* of cells aligned with the labels.                                       *)
(***************************************************************************)
Frame(columns, rows) == [t |-> "frame", columns |-> columns, rows |-> rows]

\* The cell of a row that has no value for the column.
NaN == [t |-> "nan", v |-> 0]

\* An exception leaving a function, in place of its return value.
Raised(what) == [t |-> "raise", v |-> what]

\* pandas.isna: None and NaN are both missing.
isna(x) == x.t \in {"nan", "null"}

\* seq with those of more that it does not hold yet, in order.
RECURSIVE AppendNew(_, _)
AppendNew(seq, more) ==
    IF more = <<>> THEN seq
    ELSE AppendNew(IF Head(more) \in Range(seq) THEN seq ELSE Append(seq, Head(more)),
                   Tail(more))

\* The keys of the records in order of first appearance.
RECURSIVE KeysInOrder(_)
KeysInOrder(records) ==
    IF records = <<>> THEN <<>>
    ELSE AppendNew(DictKeys(records[1]), KeysInOrder(Tail(records)))

\* Line 187: pd.DataFrame(flattened_data), one row per record, one column
\* per key, NaN where a record lacks the key.
DataFrame(records) ==
    LET columns == KeysInOrder(records)
    IN  Frame(columns,
              [r \in DOMAIN records |->
                  [c \in DOMAIN columns |->
                      IF DictHas(records[r], columns[c])
                      THEN DictGet(records[r], columns[c])
                      ELSE NaN]])

\* Line 190: df.columns = [sanitize_column_name(col) for col in df.columns]
SanitizeColumns(frame) ==
    Frame([c \in DOMAIN frame.columns |-> sanitize_column_name(frame.columns[c])],
          frame.rows)

\* The position of the one column labelled name.
ColumnIndex(frame, name) == CHOOSE c \in DOMAIN frame.columns : frame.columns[c] = name

\* How many columns are labelled name.
LabelCount(frame, name) == Cardinality({c \in DOMAIN frame.columns : frame.columns[c] = name})

\* df[name] = values, for a label the frame holds once.
SetColumn(frame, name, values) ==
    Frame(frame.columns,
          [r \in DOMAIN frame.rows |->
              [c \in DOMAIN frame.columns |->
                  IF frame.columns[c] = name THEN values[r] ELSE frame.rows[r][c]]])

\* df[name], for a label the frame holds once: the cells of the column.
GetColumn(frame, name) ==
    [r \in DOMAIN frame.rows |-> frame.rows[r][ColumnIndex(frame, name)]]

(***************************************************************************)
(* handle_case_insensitive_duplicates, lines 69-93                         *)
(***************************************************************************)
\* str.lower()
str_lower(s) ==
    [i \in DOMAIN s |->
        IF s[i] \in Range(Upper)
        THEN Lower[CHOOSE k \in DOMAIN Upper : Upper[k] = s[i]]
        ELSE s[i]]

\* A plausible slip: other.combine_first(self), the duplicate's value first.
combine_second(self, other) ==
    [r \in DOMAIN self |-> IF isna(other[r]) THEN self[r] ELSE other[r]]

\* Series.combine_first: self's value, other's where self's is missing.
combine_first(self, other) ==
    [r \in DOMAIN self |-> IF isna(self[r]) THEN other[r] ELSE self[r]]

\* A plausible slip: the marked columns are not dropped.
KeepColumns(frame, labels) == frame

\* Line 91: df.drop(columns=labels), every column with one of the labels.
DropColumns(frame, labels) ==
    LET keep == {c \in DOMAIN frame.columns : frame.columns[c] \notin Range(labels)}
        Pick(seq) ==
            LET F[c \in 0 .. Len(seq)] ==
                    IF c = 0 THEN <<>>
                    ELSE IF c \in keep THEN Append(F[c - 1], seq[c]) ELSE F[c - 1]
            IN  F[Len(seq)]
    IN  Frame(Pick(frame.columns), [r \in DOMAIN frame.rows |-> Pick(frame.rows[r])])

\* The loop of lines 77-88 from the i-th column label on. df[label] of a
\* label held more than once is a DataFrame, not a Series; combine_first
\* then reads its .dtype and the AttributeError leaves the function.
RECURSIVE MergeLoop(_, _, _, _, _)
MergeLoop(columns, i, frame, lowercase_cols, columns_to_drop) ==
    IF i > Len(columns)
    THEN [t |-> "ok", frame |-> frame, columns_to_drop |-> columns_to_drop]
    ELSE LET col == columns[i]
             lower_col == str_lower(col)
         IN  IF DictHas(lowercase_cols, lower_col)
             THEN LET existing_col == DictGet(lowercase_cols, lower_col)
                  IN  IF LabelCount(frame, existing_col) > 1 \/ LabelCount(frame, col) > 1
                      THEN Raised("AttributeError")
                      ELSE MergeLoop(columns, i + 1,
                               SetColumn(frame, existing_col,
                                   combine_first(GetColumn(frame, existing_col),
                                                 GetColumn(frame, col))),
                               lowercase_cols,
                               Append(columns_to_drop, col))
             ELSE MergeLoop(columns, i + 1, frame,
                            DictSet(lowercase_cols, lower_col, col), columns_to_drop)

handle_case_insensitive_duplicates(frame) ==
    LET looped == MergeLoop(frame.columns, 1, frame, <<>>, <<>>)
    IN  IF looped.t = "raise" THEN looped
        ELSE DropColumns(looped.frame, looped.columns_to_drop)

(***************************************************************************)
(* SpecReconcile: handle_case_insensitive_duplicates on every frame of at  *)
(* most MaxCols columns and of one or two rows (the merge works row by     *)
(* row) whose labels are sanitized names and whose cells are missing or    *)
(* hold a value of their own.                                              *)
(***************************************************************************)
MaxCols == 3

RowCounts == {1, 2}

\* Three case variants of one name, and another name.
ColumnNames == {<<"a","b">>, <<"A","b">>, <<"a","B">>, <<"c">>}

\* The value of the cell at row r of the c-th column, told from every other.
CellValue(r, c) == JNum(10 * r + c)

FramesOf(nrows, ncols) ==
    {Frame(columns, [r \in 1 .. nrows |->
                        [c \in 1 .. ncols |->
                            IF <<r, c>> \in missing THEN NaN ELSE CellValue(r, c)]]) :
        columns \in [1 .. ncols -> ColumnNames],
        missing \in SUBSET ((1 .. nrows) \X (1 .. ncols))}

InitReconcile ==
    /\ pc = "call"
    /\ \E nrows \in RowCounts, ncols \in 1 .. MaxCols : arg \in FramesOf(nrows, ncols)
    /\ ret = None
    /\ ret2 = None
    /\ PipeIdle

Reconcile ==
    /\ pc = "call"
    /\ ret' = handle_case_insensitive_duplicates(arg)
    /\ pc' = "merged"
    /\ UNCHANGED <<arg, ret2>>
    /\ UNCHANGED pipeVars

NextReconcile == Reconcile

SpecReconcile == InitReconcile /\ [][NextReconcile]_vars

\* The positions of the columns that are the first of their lower-cased name.
FirstSeen(columns) ==
    {c \in DOMAIN columns :
        \A b \in 1 .. (c - 1) : str_lower(columns[b]) # str_lower(columns[c])}

\* The positions of the columns that lower-case to the same name as column c.
Variants(columns, c) ==
    {b \in DOMAIN columns : str_lower(columns[b]) = str_lower(columns[c])}

\* The k-th smallest element of a set of numbers.
Kth(S, k) == CHOOSE x \in S : Cardinality({y \in S : y < x}) = k - 1

C8_FirstNonNullWins ==
    (pc = "merged" /\ ret.t = "frame") =>
        \A k \in DOMAIN ret.columns : \A r \in DOMAIN ret.rows :
            LET group == Variants(arg.columns, Kth(FirstSeen(arg.columns), k))
                filled == {c \in group : ~isna(arg.rows[r][c])}
            IN  IF filled = {}
                THEN isna(ret.rows[r][k])
                ELSE ret.rows[r][k] = arg.rows[r][Min(filled)]

\* Three variants, two rows: the first row takes the second duplicate's
\* value (canonical and first duplicate missing), the second row keeps the
\* canonical value though both duplicates have one.
C8_Witness ==
    /\ pc = "merged"
    /\ arg = Frame(<< <<"a","b">>, <<"A","b">>, <<"a","B">> >>,
                   << <<NaN, NaN, CellValue(1, 3)>>,
                      <<CellValue(2, 1), CellValue(2, 2), CellValue(2, 3)>> >>)
    /\ ret = Frame(<< <<"a","b">> >>, << <<CellValue(1, 3)>>, <<CellValue(2, 1)>> >>)

(***************************************************************************)
(* schema_enforcement, lines 95-150                                        *)
(***************************************************************************)
\* type_mapping.get(bq_type, None), lines 118-128 and 135.
type_mapping(bq_type) ==
    CASE bq_type = "STRING" -> "object"
      [] bq_type = "INTEGER" -> "int64"
      [] bq_type = "FLOAT" -> "float"
      [] bq_type = "BOOLEAN" -> "bool"
      [] bq_type \in {"DATE", "DATETIME", "TIMESTAMP"} -> "datetime64[ns]"
      [] bq_type \in {"NUMERIC", "BIGNUMERIC"} -> "float"
      [] OTHER -> "none"

\* Lines 139-142: the type handed to astype.
astype_target(pandas_type) ==
    IF pandas_type = "int64" THEN "Int64"
    ELSE IF pandas_type = "object" THEN "str"
    ELSE pandas_type

\* The dtype pandas gives a column of these cells: integers alone are int64,
\* integers with missing values float64, anything else object.
ColumnDtype(cells) ==
    IF \A r \in DOMAIN cells : cells[r].t = "num" THEN "int64"
    ELSE IF /\ \A r \in DOMAIN cells : cells[r].t \in {"num", "nan", "null"}
            /\ \E r \in DOMAIN cells : cells[r].t = "num"
         THEN "float64"
    ELSE "object"

IsNumeral(s) == s # <<>> /\ \A i \in DOMAIN s : s[i] \in Range(Digits)

\* int(s) of a numeral
RECURSIVE ParseInt(_)
ParseInt(s) ==
    IF s = <<>> THEN 0
    ELSE 10 * ParseInt(SubSeq(s, 1, Len(s) - 1))
         + (CHOOSE d \in 0 .. 9 : Digits[d + 1] = s[Len(s)])

\* Whether one cell converts to the target type. Everything converts to str
\* and to bool; a string converts to a number only when it is a numeral;
\* the strings of this model are words and numerals, none of them a date.
CanCast(cell, target) ==
    CASE target \in {"Int64", "float"} -> cell.t = "str" => IsNumeral(cell.v)
      [] target \in {"str", "bool"} -> TRUE
      [] target = "datetime64[ns]" -> cell.t # "str"

\* The cell converted to the target type, in a column of the given dtype.
Cast(cell, target, dtype) ==
    CASE target = "Int64" ->
            IF cell.t = "num" THEN cell
            ELSE IF cell.t = "str" THEN JNum(ParseInt(cell.v))
            ELSE [t |-> "na", v |-> 0]
      [] target = "float" ->
            IF cell.t = "num" THEN [t |-> "float", v |-> cell.v]
            ELSE IF cell.t = "str" THEN [t |-> "float", v |-> ParseInt(cell.v)]
            ELSE NaN
      [] target = "str" ->
            IF cell.t = "num"
            THEN JStr(int_str(cell.v) \o (IF dtype = "float64" THEN <<".", "0">> ELSE <<>>))
            ELSE IF cell.t = "str" THEN cell
            ELSE IF cell.t = "null" /\ dtype = "object" THEN JStr(<<"N","o","n","e">>)
            ELSE JStr(<<"n","a","n">>)
      [] target = "bool" ->
            IF cell.t = "num" THEN [t |-> "bool", v |-> cell.v # 0]
            ELSE IF cell.t = "str" THEN [t |-> "bool", v |-> cell.v # <<>>]
            ELSE [t |-> "bool", v |-> ~(cell.t = "null" /\ dtype = "object")]
      [] target = "datetime64[ns]" ->
            IF cell.t = "num" THEN [t |-> "ts", v |-> cell.v]
            ELSE [t |-> "nat", v |-> 0]

\* Whether cells.astype(target) returns: it raises when one cell does not
\* convert.
CanCastAll(cells, target) == \A r \in DOMAIN cells : CanCast(cells[r], target)

\* cells.astype(target), when it returns.
astype(cells, target) ==
    [r \in DOMAIN cells |-> Cast(cells[r], target, ColumnDtype(cells))]

\* The loop of lines 131-146 from the i-th column on. The try of line 109
\* encloses the whole loop: when astype raises, line 148 catches it after
\* the loop has been left and line 150 returns the frame as it is then.
RECURSIVE EnforceLoop(_, _, _, _)
EnforceLoop(columns, i, frame, existing_schema) ==
    IF i > Len(columns) THEN frame
    ELSE LET column == columns[i]
         IN  IF DictHas(existing_schema, column)
             THEN LET bq_type == DictGet(existing_schema, column)
                      pandas_type == type_mapping(bq_type)
                  IN  IF pandas_type # "none"
                      THEN IF CanCastAll(GetColumn(frame, column), astype_target(pandas_type))
                           THEN EnforceLoop(columns, i + 1,
                                    SetColumn(frame, column,
                                        astype(GetColumn(frame, column),
                                               astype_target(pandas_type))),
                                    existing_schema)
                           ELSE frame
                      ELSE EnforceLoop(columns, i + 1, frame, existing_schema)
             ELSE EnforceLoop(columns, i + 1, frame, existing_schema)

\* The answers of bigquery_client.get_table(table_id): a table with its
\* schema (a dict from field name to field type), NotFound, another error.
TableFound(schema) == [t |-> "table", v |-> schema]

TableNotFound == [t |-> "NotFound", v |-> <<>>]

LookupError == [t |-> "error", v |-> <<>>]

\* A plausible slip: "except Exception" at line 106, so that every failed
\* lookup counts as a missing table.
schema_enforcement_lenient(frame, lookup) ==
    IF lookup.t = "table" THEN EnforceLoop(frame.columns, 1, frame, lookup.v)
    ELSE frame

\* schema_enforcement(df, table_id), given what get_table answers. Only
\* NotFound is caught at line 106; another error leaves the function.
schema_enforcement(frame, lookup) ==
    IF lookup.t = "error" THEN Raised("lookup")
    ELSE IF lookup.t = "NotFound" THEN frame
    ELSE EnforceLoop(frame.columns, 1, frame, lookup.v)

(***************************************************************************)
(* SpecEnforce: schema_enforcement on every frame of at most MaxEnfCols    *)
(* columns and one or two rows against every answer of the lookup.         *)
(***************************************************************************)
MaxEnfCols == 2

EnforceColumns == << <<"a">>, <<"b">>, <<"c">>, <<"d">> >>

\* 30, "30", "thirty" and a missing value.
EnforceCells ==
    {JNum(30), JStr(<<"3","0">>), JStr(<<"t","h","i","r","t","y">>), NaN}

\* INTEGER and STRING have a mapping entry, JSON has none.
EnforceTypes == {"INTEGER", "STRING", "JSON"}

\* The schemas over the first n columns: each column absent or of a type.
SchemasOf(n) ==
    {LET present == {c \in 1 .. n : choice[c] # "absent"}
     IN  [k \in 1 .. Cardinality(present) |->
             <<EnforceColumns[Kth(present, k)], choice[Kth(present, k)]>>] :
        choice \in [1 .. n -> EnforceTypes \cup {"absent"}]}

InitEnforce ==
    /\ pc = "call"
    /\ \E n \in 1 .. MaxEnfCols, nrows \in RowCounts :
          \E rows \in [1 .. nrows -> [1 .. n -> EnforceCells]],
             lookup \in {TableNotFound, LookupError} \cup {TableFound(s) : s \in SchemasOf(n)} :
             arg = [df |-> Frame(SubSeq(EnforceColumns, 1, n), rows), lookup |-> lookup]
    /\ ret = None
    /\ ret2 = None
    /\ PipeIdle

Enforce ==
    /\ pc = "call"
    /\ ret' = schema_enforcement(arg.df, arg.lookup)
    /\ pc' = "enforced"
    /\ UNCHANGED <<arg, ret2>>
    /\ UNCHANGED pipeVars

NextEnforce == Enforce

SpecEnforce == InitEnforce /\ [][NextEnforce]_vars

\* C9 as stated: with an existing table the batch is returned, and column by
\* column: a column of the schema whose type has a mapping entry and whose
\* values all convert holds the converted values, wherever it stands
\* relative to a column that fails; every other column is unchanged.
C9_PerColumn ==
    (pc = "enforced" /\ arg.lookup.t = "table") =>
        /\ ret.t = "frame"
        /\ ret.columns = arg.df.columns
        /\ \A c \in DOMAIN arg.df.columns :
              LET column == arg.df.columns[c]
                  before == [r \in DOMAIN arg.df.rows |-> arg.df.rows[r][c]]
                  after == [r \in DOMAIN ret.rows |-> ret.rows[r][c]]
                  target == astype_target(type_mapping(DictGet(arg.lookup.v, column)))
              IN  IF /\ DictHas(arg.lookup.v, column)
                     /\ target # "none"
                     /\ CanCastAll(before, target)
                  THEN after = astype(before, target)
                  ELSE after = before


(***************************************************************************)
(* process_json_file, lines 152-218                                        *)
(***************************************************************************)
\* A local variable that has not been assigned.
Unbound == [t |-> "unbound", v |-> 0]

\* A Python list.
List(items) == [t |-> "list", v |-> items]

\* [flatten_json(item) for item in value]
FlattenEach(value) == [i \in DOMAIN value |-> flatten_json(value[i], <<>>)]

\* A plausible slip: the loop of lines 175-177 stops at the first key that
\* holds a list of dicts.
RECURSIVE ScanFirst(_, _)
ScanFirst(items, flattened) ==
    IF items = <<>> THEN flattened
    ELSE LET value == items[1][2]
         IN  IF IsList(value) /\ AllDicts(value.v)
             THEN FlattenEach(value.v)
             ELSE ScanFirst(Tail(items), flattened)

\* The loop of lines 175-177 over the items left: every key that holds a
\* list of dicts assigns flattened_data anew.
RECURSIVE ScanLoop(_, _)
ScanLoop(items, flattened) ==
    IF items = <<>> THEN flattened
    ELSE LET value == items[1][2]
         IN  ScanLoop(Tail(items),
                      IF IsList(value) /\ AllDicts(value.v)
                      THEN FlattenEach(value.v)
                      ELSE flattened)

ScanItems(items, flattened) == ScanLoop(items, flattened)

\* Lines 173-179: flattened_data, left unassigned when the document is
\* neither a dict nor a list.
flatten_document(document) ==
    IF IsDict(document)
    THEN List(ScanItems(document.v, <<flatten_json(document, <<>>)>>))
    ELSE IF IsList(document)
    THEN List(FlattenEach(document.v))
    ELSE Unbound

create_date == <<"c","r","e","a","t","e","_","d","a","t","e">>

source_file_name == <<"s","o","u","r","c","e","_","f","i","l","e","_","n","a","m","e">>

\* df[name] = value: every row gets the value, in the column labelled name
\* or in a new last column.
AssignColumn(frame, name, value) ==
    IF name \in Range(frame.columns)
    THEN SetColumn(frame, name, [r \in DOMAIN frame.rows |-> value])
    ELSE Frame(Append(frame.columns, name),
               [r \in DOMAIN frame.rows |-> Append(frame.rows[r], value)])

\* Lines 208-209.
AddProvenance(frame, now, name) ==
    AssignColumn(AssignColumn(frame, create_date, now),
                 source_file_name, JStr(basename(name)))

\* The statements of the try block (lines 157-215) that can raise, by the
\* stage they belong to; line 217 catches what they raise.
TryBody == {"fetch", "parse", "toplevel", "reconcile", "lookup", "append"}

(***************************************************************************)
(* Spec: one invocation of process_json_file, on every document of at most *)
(* MaxDocNodes nodes, with every answer of the collaborators.              *)
(***************************************************************************)
MaxDocNodes == 4

\* "a" and "A" differ by case only; "a" and "a " sanitize to the same name.
DocKeys == {<<"a">>, <<"A">>, <<"a"," ">>}

Documents == TreesUpTo(DocKeys, MaxDocNodes)

\* The schema of the table when it exists: column a was created as STRING.
PipelineSchema == << <<<<"a">>, "STRING">> >>

\* datetime.utcnow()
UtcNow == {[t |-> "ts", v |-> 0]}

Init ==
    /\ pc = "fetch"
    /\ file_name = ExampleFile
    /\ json_data = Unbound
    /\ flattened_data = Unbound
    /\ df = Unbound
    /\ table_name = <<>>
    /\ table = Unbound
    /\ attempts = 0
    /\ appended = <<>>
    /\ steps = <<>>
    /\ failed_at = "none"
    /\ outcome = "running"
    /\ UnitIdle

\* The statement at pc raises: control goes to line 217.
RaiseAt(stage) ==
    /\ failed_at' = stage
    /\ pc' = "except"
    /\ UNCHANGED <<file_name, json_data, flattened_data, df, table_name, table,
                   attempts, appended, steps, outcome>>

\* Lines 157-168: blob.download_as_string() returns the bytes or raises.
Download ==
    /\ pc = "fetch"
    /\ \E ok \in BOOLEAN :
          IF ok
          THEN /\ pc' = "parse"
               /\ steps' = Append(steps, "fetch")
               /\ UNCHANGED <<file_name, json_data, flattened_data, df, table_name,
                              table, attempts, appended, failed_at, outcome>>
          ELSE RaiseAt("fetch")
    /\ UNCHANGED <<arg, ret, ret2>>

\* Line 168: json.loads returns the document or raises.
Parse ==
    /\ pc = "parse"
    /\ \/ \E document \in Documents :
             /\ json_data' = document
             /\ pc' = "flatten"
             /\ steps' = Append(steps, "parse")
             /\ UNCHANGED <<file_name, flattened_data, df, table_name, table,
                            attempts, appended, failed_at, outcome>>
       \/ RaiseAt("parse")
    /\ UNCHANGED <<arg, ret, ret2>>

\* Lines 173-180.
FlattenDocument ==
    /\ pc = "flatten"
    /\ flattened_data' = flatten_document(json_data)
    /\ pc' = "check"
    /\ steps' = Append(steps, "flatten")
    /\ UNCHANGED <<file_name, json_data, df, table_name, table,
                   attempts, appended, failed_at, outcome>>
    /\ UNCHANGED <<arg, ret, ret2>>

\* Lines 182-184: reading the unassigned flattened_data raises; the empty
\* list returns the empty-source message with status 200.
CheckEmpty ==
    /\ pc = "check"
    /\ IF flattened_data = Unbound
       THEN RaiseAt("toplevel")
       ELSE IF flattened_data.v = <<>>
       THEN /\ outcome' = "empty_source"
            /\ pc' = "done"
            /\ UNCHANGED <<file_name, json_data, flattened_data, df, table_name,
                           table, attempts, appended, steps, failed_at>>
       ELSE /\ pc' = "frame"
            /\ UNCHANGED <<file_name, json_data, flattened_data, df, table_name,
                           table, attempts, appended, steps, failed_at, outcome>>
    /\ UNCHANGED <<arg, ret, ret2>>

\* Lines 187-190.
BuildFrame ==
    /\ pc = "frame"
    /\ df' = SanitizeColumns(DataFrame(flattened_data.v))
    /\ pc' = "reconcile"
    /\ steps' = Append(steps, "sanitize")
    /\ UNCHANGED <<file_name, json_data, flattened_data, table_name, table,
                   attempts, appended, failed_at, outcome>>
    /\ UNCHANGED <<arg, ret, ret2>>

\* Line 193.
ReconcileFrame ==
    /\ pc = "reconcile"
    /\ LET merged == handle_case_insensitive_duplicates(df)
       IN  IF merged.t = "raise"
           THEN RaiseAt("reconcile")
           ELSE /\ df' = merged
                /\ pc' = "table"
                /\ steps' = Append(steps, "reconcile")
                /\ UNCHANGED <<file_name, json_data, flattened_data, table_name,
                               table, attempts, appended, failed_at, outcome>>
    /\ UNCHANGED <<arg, ret, ret2>>

\* Lines 196-199.
DeriveTable ==
    /\ pc = "table"
    /\ table_name' = table_name_of(file_name)
    /\ pc' = "enforce"
    /\ UNCHANGED <<file_name, json_data, flattened_data, df, table,
                   attempts, appended, steps, failed_at, outcome>>
    /\ UNCHANGED <<arg, ret, ret2>>

\* Line 202: schema_enforcement, with what get_table answers.
EnforceSchema ==
    /\ pc = "enforce"
    /\ \E lookup \in {TableNotFound, LookupError, TableFound(PipelineSchema)} :
          LET enforced == schema_enforcement(df, lookup)
          IN  /\ table' = lookup
              /\ IF enforced.t = "raise"
                 THEN /\ failed_at' = "lookup"
                      /\ pc' = "except"
                      /\ UNCHANGED <<df, steps>>
                 ELSE /\ df' = enforced
                      /\ pc' = "provenance"
                      /\ steps' = Append(steps, "enforce")
                      /\ UNCHANGED failed_at
    /\ UNCHANGED <<file_name, json_data, flattened_data, table_name,
                   attempts, appended, outcome>>
    /\ UNCHANGED <<arg, ret, ret2>>

\* Lines 205-209.
Provenance ==
    /\ pc = "provenance"
    /\ \E now \in UtcNow : df' = AddProvenance(df, now, file_name)
    /\ pc' = "append"
    /\ steps' = Append(steps, "provenance")
    /\ UNCHANGED <<file_name, json_data, flattened_data, table_name, table,
                   attempts, appended, failed_at, outcome>>
    /\ UNCHANGED <<arg, ret, ret2>>

\* Line 213: df.to_gbq(..., if_exists='append') stores the batch or raises.
AppendToStore ==
    /\ pc = "append"
    /\ attempts' = attempts + 1
    /\ \E ok \in BOOLEAN :
          IF ok
          THEN /\ appended' = Append(appended, [table_name |-> table_name, df |-> df])
               /\ outcome' = "inserted"
               /\ pc' = "done"
               /\ steps' = Append(steps, "append")
               /\ UNCHANGED failed_at
          ELSE /\ failed_at' = "append"
               /\ pc' = "except"
               /\ UNCHANGED <<appended, outcome, steps>>
    /\ UNCHANGED <<file_name, json_data, flattened_data, df, table_name, table>>
    /\ UNCHANGED <<arg, ret, ret2>>

\* Lines 217-218: what was raised inside the try block is printed and the
\* function returns; anything else would reach the trigger.
Except ==
    /\ pc = "except"
    /\ outcome' = IF failed_at \in TryBody THEN "caught" ELSE "raised"
    /\ pc' = "done"
    /\ UNCHANGED <<file_name, json_data, flattened_data, df, table_name, table,
                   attempts, appended, steps, failed_at>>
    /\ UNCHANGED <<arg, ret, ret2>>

Next ==
    \/ Download
    \/ Parse
    \/ FlattenDocument
    \/ CheckEmpty
    \/ BuildFrame
    \/ ReconcileFrame
    \/ DeriveTable
    \/ EnforceSchema
    \/ Provenance
    \/ AppendToStore
    \/ Except

Spec == Init /\ [][Next]_vars

TypeOK ==
    /\ pc \in {"fetch", "parse", "flatten", "check", "frame", "reconcile", "table",
               "enforce", "provenance", "append", "except", "done"}
    /\ attempts \in 0 .. 1
    /\ failed_at \in TryBody \cup {"none"}
    /\ outcome \in {"running", "empty_source", "inserted", "caught", "raised"}


\* The keys of a top-level object that hold an array of objects, by position.
QualifyingKeys(document) ==
    {i \in DOMAIN document.v :
        IsList(document.v[i][2]) /\ AllDicts(document.v[i][2].v)}

\* records holds one flat record per element of items, in order.
OnePerElement(records, items) ==
    /\ Len(records) = Len(items)
    /\ \A k \in DOMAIN items : records[k] = flatten_json(items[k], <<>>)

\* C6: once the document is flattened, a top-level object without a key
\* holding an array of objects gives the one flat record of the object; with
\* such keys it gives one flat record per element of the array under the last
\* of them in key order and nothing else; a top-level array gives one flat
\* record per element, in order.
C6_TopLevelDispatch ==
    ("flatten" \in Range(steps) /\ json_data.t \in {"obj", "arr"}) =>
        /\ flattened_data.t = "list"
        /\ IF IsDict(json_data)
           THEN IF QualifyingKeys(json_data) = {}
                THEN flattened_data.v = <<flatten_json(json_data, <<>>)>>
                ELSE OnePerElement(flattened_data.v,
                                   json_data.v[Max(QualifyingKeys(json_data))][2].v)
           ELSE OnePerElement(flattened_data.v, json_data.v)

\* {"a": [{}], "A": []} was flattened: two keys qualify, the rows of the
\* first one are replaced by the (no) rows of the last one.
C6_Witness ==
    /\ pc = "check"
    /\ json_data = JObj(<< << <<"a">>, JArr(<<JObj(<<>>)>>)>>, << <<"A">>, JArr(<<>>)>> >>)
    /\ flattened_data = List(<<>>)

\* [{"a": 1}, 1] was flattened: one record per element, in order.
C6_WitnessArray ==
    /\ pc = "check"
    /\ json_data = JArr(<<JObj(<< << <<"a">>, JNum(1)>> >>), JNum(1)>>)
    /\ flattened_data = List(<< << << <<"a">>, JNum(1)>> >>, <<>> >>)

\* C4 as stated: an invocation that ends without a failure on an empty
\* top-level array or an empty top-level object has an empty record
\* sequence, reports the empty source and has attempted no append.
C4_EmptySource ==
    (/\ pc = "done"
     /\ failed_at = "none"
     /\ json_data \in {JArr(<<>>), JObj(<<>>)}) =>
        /\ flattened_data = List(<<>>)
        /\ outcome = "empty_source"
        /\ attempts = 0

\* The part of C4 the code keeps: the empty top-level array.
C4_EmptyArray ==
    (pc = "done" /\ failed_at = "none" /\ json_data = JArr(<<>>)) =>
        /\ flattened_data = List(<<>>)
        /\ outcome = "empty_source"
        /\ attempts = 0

\* The stages line 213 comes after.
StagesBeforeAppend ==
    <<"fetch", "parse", "flatten", "sanitize", "reconcile", "enforce", "provenance">>

\* C10: the append is attempted at most once, and only when fetch, parse,
\* flatten, sanitize, reconcile, schema enforcement and the provenance
\* columns have completed in that order, after which nothing but the end of
\* the invocation follows; when the fetch, the parse, the top-level dispatch
\* or the schema lookup has failed no append is attempted and nothing is
\* stored; a failure is caught and the invocation never raises.
C10_AppendOnceAtEnd ==
    /\ attempts <= 1
    /\ Len(appended) <= attempts
    /\ attempts = 1 =>
          /\ SubSeq(steps, 1, Len(StagesBeforeAppend)) = StagesBeforeAppend
          /\ pc \in {"except", "done"}
    /\ (\/ failed_at \in {"fetch", "parse", "toplevel", "lookup"}
        \/ table.t = "error"
        \/ (pc \notin {"fetch", "parse"} /\ json_data = Unbound)
        \/ ("flatten" \in Range(steps) /\ json_data.t \notin {"obj", "arr"})) =>
          /\ attempts = 0
          /\ appended = <<>>
          /\ pc \in {"check", "except", "done"}
    /\ outcome # "raised"
    /\ (pc = "done" /\ failed_at # "none") => outcome = "caught"

\* The batch of {"a": 1} was appended after every stage and the invocation
\* ended.
C10_Witness ==
    /\ pc = "done"
    /\ json_data = JObj(<< << <<"a">>, JNum(1)>> >>)
    /\ table.t = "table"
    /\ attempts = 1
    /\ Len(appended) = 1
    /\ steps = Append(StagesBeforeAppend, "append")
    /\ outcome = "inserted"

\* The schema lookup failed with an error other than NotFound: the
\* invocation ended with the failure caught and no append.
C10_WitnessLookup ==
    /\ pc = "done"
    /\ table.t = "error"
    /\ failed_at = "lookup"
    /\ attempts = 0
    /\ outcome = "caught"

====
